---- MODULE Spec2Model ----
(***************************************************************************)
(* Model of the data pipeline of self-supervised-driving:                  *)
(*   src/ssd/aim_vo/data.py   CARLA_Data2 (sequence indexer, preload       *)
(*                            cache, dataset accessor), CARLA_Data,        *)
(*                            scale_and_crop_image, transform_2d_points    *)
(*   src/ssd/train.py         Engine.get_labels (pseudo-label generator)   *)
(*   src/ssd/aim_nav2/config.py  GlobalConfig                              *)
(*                                                                         *)
(* Numbers.  Positions are integers and headings are quarter turns         *)
(* (theta = k * pi/2 is written k), so that cos and sin are exact; a       *)
(* float that is not-a-number is the value NaN, and arithmetic on NaN      *)
(* gives NaN as IEEE-754 does.                                             *)
(***************************************************************************)
EXTENDS Integers, Sequences, FiniteSets, TLC

VARIABLES
    ix,      \* one run of the sequence indexer over one route
    img,     \* one call of scale_and_crop_image
    dset,    \* a CARLA_Data2 object: its config and its 14 lists
    dset0,   \* the same object as its constructor left it
    calls,   \* the __getitem__ call each loader worker is in
    disk,    \* the data roots on disk: their route directories and files
    ctor,    \* the CARLA_Data2 constructor each process is in
    lab,     \* one run of Engine.get_labels and the reloads of what it wrote
    geo      \* a point taken from one frame to another and back

vars == <<ix, img, dset, dset0, calls, disk, ctor, lab, geo>>

----------------------------------------------------------------------------
(* Bounds of the model *)

IxMaxFrames == 10      \* front frames of the route handed to the indexer
IxMaxSeqLen == 3
IxMaxPredLen == 4

ImgMaxDim == 6         \* width and height of the image handed to the preprocessor
ImgMaxScale == 2
ImgMaxCrop == 6

AccMaxFrames == 4      \* front frames of the route behind the accessed dataset
AccMaxSeqLen == 2
AccMaxPredLen == 1
AccMaxNaN == 2         \* measurement records of the route with theta = NaN

LifeMaxFrames == 4     \* front frames of a route under the cached data roots
LifeMaxPredLen == 1

LabMaxPredLen == 2

LabMaxWp == 2

LabMaxBatch == 2

LabMaxBatches == 2

LabMaxFrames == 4

GeoMaxCoord == 1

GeoMaxTurn == 3

IntMaxFrames == 4

IntMaxPredLen == 1

----------------------------------------------------------------------------
(* GlobalConfig *)

ConfigScale == 1

ConfigInputResolution == 256

Config(seq_len, pred_len, ignore_sides, ignore_rear) ==
    [seq_len |-> seq_len, pred_len |-> pred_len,
     ignore_sides |-> ignore_sides, ignore_rear |-> ignore_rear,
     scale |-> ConfigScale, input_resolution |-> ConfigInputResolution]

----------------------------------------------------------------------------
(* Floats: [nan |-> FALSE, v |-> n] is the number n, NaN is not-a-number *)

F(n) == [nan |-> FALSE, v |-> n]

NaN == [nan |-> TRUE, v |-> 0]

\* np.isnan
isnan(a) == a.nan

FAdd(a, b) == IF a.nan \/ b.nan THEN NaN ELSE F(a.v + b.v)

FSub(a, b) == IF a.nan \/ b.nan THEN NaN ELSE F(a.v - b.v)

FMul(a, b) == IF a.nan \/ b.nan THEN NaN ELSE F(a.v * b.v)

FNeg(a) == IF a.nan THEN NaN ELSE F(0 - a.v)

IsFinite(a) == ~a.nan

----------------------------------------------------------------------------
(* File names: str(n).zfill(4) as a sequence of decimal digits *)

RECURSIVE Str(_)
Str(n) == IF n < 10 THEN <<n>> ELSE Str(n \div 10) \o <<n % 10>>

RECURSIVE zfill(_, _)
zfill(s, width) == IF Len(s) >= width THEN s ELSE zfill(<<0>> \o s, width)

FrameName(n) == zfill(Str(n), 4)

----------------------------------------------------------------------------
(* Route directory layout (read by the sequence indexer).                  *)
(* A route is [name, nfront, nmeas, nan, ver]: rgb_front holds nfront      *)
(* files, measurements holds the records 0000.json .. of the frames        *)
(* 0 .. nmeas-1, the frames in nan have theta = NaN, and ver tells one     *)
(* recording of the route from another.                                    *)

Measurement(route, k) ==
    [x |-> F(k), y |-> F(route.ver),
     theta |-> IF k \in route.nan THEN NaN ELSE F((k + route.ver) % 4),
     x_command |-> F(k + 2), y_command |-> F(route.ver + 1),
     steer |-> 100 + k, throttle |-> 200 + k, brake |-> 300 + k,
     command |-> 400 + k, speed |-> 500 + k]

\* whether route_dir + "/measurements/<name>.json" is there
MeasurementExists(route, name) ==
    \E k \in 0..(route.nmeas - 1) : FrameName(k) = name

\* open(route_dir + "/measurements/<name>.json") and json.load
ReadMeasurement(route, name) ==
    Measurement(route, CHOOSE k \in 0..(route.nmeas - 1) : FrameName(k) = name)

\* route_dir + "/rgb_front/" + filename
ImagePath(sub_root, route, view, name) == <<sub_root, route.name, view, name>>

----------------------------------------------------------------------------
(* Sequence indexer: CARLA_Data2.__init__, the body of `for route in routes` *)

FieldNames ==
    {"front", "left", "right", "rear", "x", "y", "x_command", "y_command",
     "theta", "steer", "throttle", "brake", "command", "velocity"}

\* preload_front = [] ... preload_velocity = []
EmptyPreload == [f \in FieldNames |-> <<>>]

NumSeqNoMargin(nfront, seq_len, pred_len) == (nfront - pred_len) \div seq_len

\* num_seq = (len(os.listdir(route_dir+"/rgb_front/"))-self.pred_len-2)//self.seq_len
NumSeq(nfront, seq_len, pred_len) == (nfront - pred_len - 2) \div seq_len

\* the frame number in str(seq*self.seq_len+1+i).zfill(4)
FrameOf(seq, seq_len, i) == seq * seq_len + 1 + i

\* the measurement records one window reads, steps 0 .. seq_len+pred_len-1
WindowData(route, seq, seq_len, pred_len) ==
    [i \in 1..(seq_len + pred_len) |->
        ReadMeasurement(route, FrameName(FrameOf(seq, seq_len, i - 1)))]

FutureThetaNoFix(theta) == theta

\* fix for theta=nan in some measurements (future frames)
FutureTheta(theta) == IF isnan(theta) THEN F(0) ELSE theta

\* one pass of `for seq in range(num_seq)`: the appends to the 14 lists
AppendWindow(pre, sub_root, route, seq, seq_len, pred_len) ==
    LET data == WindowData(route, seq, seq_len, pred_len)
        names == [i \in 1..seq_len |-> FrameName(FrameOf(seq, seq_len, i - 1))]
        last == data[seq_len]
    IN  [pre EXCEPT
            !["x_command"] = Append(@, last.x_command),
            !["y_command"] = Append(@, last.y_command),
            !["steer"] = Append(@, last.steer),
            !["throttle"] = Append(@, last.throttle),
            !["brake"] = Append(@, last.brake),
            !["command"] = Append(@, last.command),
            !["velocity"] = Append(@, last.speed),
            !["front"] = Append(@, [i \in 1..seq_len |-> ImagePath(sub_root, route, "rgb_front", names[i])]),
            !["left"] = Append(@, [i \in 1..seq_len |-> ImagePath(sub_root, route, "rgb_left", names[i])]),
            !["right"] = Append(@, [i \in 1..seq_len |-> ImagePath(sub_root, route, "rgb_right", names[i])]),
            !["rear"] = Append(@, [i \in 1..seq_len |-> ImagePath(sub_root, route, "rgb_rear", names[i])]),
            !["x"] = Append(@, [i \in 1..(seq_len + pred_len) |-> data[i].x]),
            !["y"] = Append(@, [i \in 1..(seq_len + pred_len) |-> data[i].y]),
            !["theta"] = Append(@, [i \in 1..(seq_len + pred_len) |->
                                IF i <= seq_len THEN data[i].theta
                                ELSE FutureTheta(data[i].theta)])]

\* whether every measurement file the window opens is there
WindowReadable(route, seq, seq_len, pred_len) ==
    \A i \in 1..(seq_len + pred_len) :
        MeasurementExists(route, FrameName(FrameOf(seq, seq_len, i - 1)))

RECURSIVE IndexWindows(_, _, _, _, _, _, _)
\* `for seq in range(num_seq)` from seq on; r is [ok, pre], and an open()
\* that fails raises FileNotFoundError out of the constructor (ok = FALSE)
IndexWindows(r, sub_root, route, seq, num_seq, seq_len, pred_len) ==
    IF ~r.ok \/ seq >= num_seq THEN r
    ELSE IF ~WindowReadable(route, seq, seq_len, pred_len)
         THEN [ok |-> FALSE, pre |-> r.pre]
    ELSE IndexWindows(
            [ok |-> TRUE,
             pre |-> AppendWindow(r.pre, sub_root, route, seq, seq_len, pred_len)],
            sub_root, route, seq + 1, num_seq, seq_len, pred_len)

\* whether os.listdir(route_dir+"/rgb_front/") has a directory to list; a
\* route directory without rgb_front is written nfront = -1
HasRgbFront(route) == route.nfront >= 0

\* the body of `for route in routes` for one route; os.listdir of a
\* directory that is not there raises FileNotFoundError
IndexRoute(r, sub_root, route, seq_len, pred_len) ==
    IF ~HasRgbFront(route) THEN [ok |-> FALSE, pre |-> r.pre]
    ELSE IndexWindows(r, sub_root, route, 0,
                      NumSeq(route.nfront, seq_len, pred_len), seq_len, pred_len)

----------------------------------------------------------------------------
(* The parts of the state a specification leaves out stay as they are here *)

Workers == {"w1", "w2"}

IdleCall == [pc |-> "idle", index |-> 0, i |-> 0, data |-> <<>>]

IxOff == ix = [pc |-> "off"]

ImgOff == img = [pc |-> "off"]

AccOff ==
    /\ dset = [pc |-> "off"]
    /\ dset0 = [pc |-> "off"]
    /\ calls = [w \in Workers |-> IdleCall]

Procs == {"p1", "p2"}

LifeOff ==
    /\ disk = [pc |-> "off"]
    /\ ctor = [p \in Procs |-> [pc |-> "idle"]]

LabOff == lab = [pc |-> "off"]

GeoOff == geo = [pc |-> "off"]

----------------------------------------------------------------------------
(* SpecIndexer: the sequence indexer run once over one well-formed route   *)
(* (frames 0000 .. N-1 in rgb_front and in measurements), for every N,     *)
(* seq_len and pred_len within the bounds.                                 *)

IxRoute(n) == [name |-> "route0", nfront |-> n, nmeas |-> n, nan |-> {}, ver |-> 0]

IxInit ==
    /\ \E n \in 0..IxMaxFrames, s \in 1..IxMaxSeqLen, p \in 0..IxMaxPredLen :
          ix = [pc |-> "start", seq_len |-> s, pred_len |-> p, route |-> IxRoute(n),
                out |-> [ok |-> TRUE, pre |-> EmptyPreload]]
    /\ ImgOff /\ AccOff /\ LifeOff /\ LabOff /\ GeoOff

IxRun ==
    /\ ix.pc = "start"
    /\ ix' = [ix EXCEPT !.pc = "done",
                        !.out = IndexRoute(ix.out, "root0", ix.route,
                                           ix.seq_len, ix.pred_len)]
    /\ UNCHANGED <<img, dset, dset0, calls, disk, ctor, lab, geo>>

IxNext == IxRun

SpecIndexer == IxInit /\ [][IxNext]_vars

RECURSIVE DigitsValue(_)
\* the number a sequence of decimal digits writes
DigitsValue(d) ==
    IF Len(d) = 0 THEN 0
    ELSE 10 * DigitsValue(SubSeq(d, 1, Len(d) - 1)) + d[Len(d)]

\* C1: a route with N front frames yields (N - pred_len - 2) // seq_len windows
\* (none when that is <= 0); window w holds the frames w*seq_len+1 ..
\* w*seq_len+seq_len under 4-digit names, and the pose records of these and of
\* the next pred_len frames; N=10, seq_len=1, pred_len=4 gives 4 windows,
\* window 0 = 0001 with futures 0002..0005, window 3 = 0004 with 0005..0008.
C1_WindowLayout ==
    ix.pc = "done" =>
        LET s == ix.seq_len
            p == ix.pred_len
            avail == ix.route.nfront - p - 2
            out == ix.out.pre
            nw == Len(out["front"])
        IN  /\ ix.out.ok
            /\ avail < s => nw = 0
            /\ avail >= s => (nw * s <= avail /\ avail < (nw + 1) * s)
            /\ \A f \in FieldNames : Len(out[f]) = nw
            /\ \A w \in 0..(nw - 1) :
                /\ Len(out["front"][w + 1]) = s
                /\ \A i \in 1..s :
                    LET path == out["front"][w + 1][i]
                    IN  /\ path[1] = "root0" /\ path[2] = "route0"
                        /\ path[3] = "rgb_front"
                        /\ Len(path[4]) = 4
                        /\ \A k \in 1..4 : path[4][k] \in 0..9
                        /\ DigitsValue(path[4]) = w * s + i
                /\ out["x"][w + 1] = [j \in 1..(s + p) |-> F(w * s + j)]
                /\ Len(out["y"][w + 1]) = s + p
                /\ Len(out["theta"][w + 1]) = s + p
                /\ out["steer"][w + 1] = 100 + (w * s + s)
            /\ (ix.route.nfront = 10 /\ s = 1 /\ p = 4) =>
                /\ nw = 4
                /\ out["front"][1] = << <<"root0", "route0", "rgb_front", <<0, 0, 0, 1>> >> >>
                /\ out["x"][1] = <<F(1), F(2), F(3), F(4), F(5)>>
                /\ out["front"][4] = << <<"root0", "route0", "rgb_front", <<0, 0, 0, 4>> >> >>
                /\ out["x"][4] = <<F(4), F(5), F(6), F(7), F(8)>>

C1_Witness ==
    /\ ix.pc = "done"
    /\ ix.route.nfront = 10 /\ ix.seq_len = 1 /\ ix.pred_len = 4
    /\ Len(ix.out.pre["front"]) = 4

----------------------------------------------------------------------------
(* Image preprocessor: scale_and_crop_image *)

Max(a, b) == IF a >= b THEN a ELSE b

Min(a, b) == IF a <= b THEN a ELSE b

\* Python's a[start:stop] on an axis of n entries: the bound as the slice uses it
SliceBound(v, n) == IF v < 0 THEN Max(v + n, 0) ELSE Min(v, n)

\* the number of entries a[start:stop] keeps of an axis of n entries
SliceLen(start, stop, n) == Max(SliceBound(stop, n) - SliceBound(start, n), 0)

\* scale_and_crop_image(image, scale, crop): the shape of the array returned
\* for an image of width x height and `channels` channels
scale_and_crop_image(width, height, channels, scale, crop) ==
    LET w == width \div scale
        h == height \div scale
        start_x == (h \div 2) - (crop \div 2)
        start_y == (w \div 2) - (crop \div 2)
    IN  [ok |-> TRUE,
         shape |-> <<channels,
                     SliceLen(start_x, start_x + crop, h),
                     SliceLen(start_y, start_y + crop, w)>>]

(* SpecImage: one call, for every image size, scale and crop within the    *)
(* bounds; the image has at least `scale` pixels each way, so that the     *)
(* resized image is not empty, and three or four channels (RGB, RGBA).     *)

ImgInit ==
    /\ \E w \in 1..ImgMaxDim, h \in 1..ImgMaxDim, c \in {3, 4},
          sc \in 1..ImgMaxScale, cr \in 1..ImgMaxCrop :
          /\ w >= sc /\ h >= sc
          /\ img = [pc |-> "call", width |-> w, height |-> h, channels |-> c,
                    scale |-> sc, crop |-> cr, out |-> [ok |-> FALSE, shape |-> <<>>]]
    /\ IxOff /\ AccOff /\ LifeOff /\ LabOff /\ GeoOff

ImgCall ==
    /\ img.pc = "call"
    /\ img' = [img EXCEPT !.pc = "returned",
                          !.out = scale_and_crop_image(img.width, img.height,
                                        img.channels, img.scale, img.crop)]
    /\ UNCHANGED <<ix, dset, dset0, calls, disk, ctor, lab, geo>>

ImgNext == ImgCall

SpecImage == ImgInit /\ [][ImgNext]_vars

ResizedTooSmall ==
    \/ img.width \div img.scale < img.crop
    \/ img.height \div img.scale < img.crop

\* C9: scale_and_crop_image fails whenever the resized image is smaller than
\* crop in either dimension, and never returns an array smaller than
\* crop x crop; when the resized image is at least crop both ways the shape
\* returned is exactly (channels, crop, crop).
C9_FailsWhenTooSmall ==
    img.pc = "returned" =>
        /\ ResizedTooSmall => ~img.out.ok
        /\ img.out.ok => img.out.shape = <<img.channels, img.crop, img.crop>>

\* C9, the part the code keeps: a resized image of at least crop x crop
\* is cut to exactly (channels, crop, crop)
C9_ExactWhenLargeEnough ==
    (img.pc = "returned" /\ ~ResizedTooSmall) =>
        (img.out.ok /\ img.out.shape = <<img.channels, img.crop, img.crop>>)

C9_WitnessLargeEnough ==
    /\ img.pc = "returned" /\ ~ResizedTooSmall
    /\ img.scale = 2 /\ img.crop = 3

----------------------------------------------------------------------------
(* Geometric transform: transform_2d_points.  Angles are quarter turns.    *)

QuarterCos(q) == CASE q % 4 = 0 -> 1 [] q % 4 = 2 -> -1 [] OTHER -> 0

QuarterSin(q) == CASE q % 4 = 1 -> 1 [] q % 4 = 3 -> -1 [] OTHER -> 0

\* np.cos
cos(a) == IF a.nan THEN NaN ELSE F(QuarterCos(a.v))

\* np.sin
sin(a) == IF a.nan THEN NaN ELSE F(QuarterSin(a.v))

\* np.pi/2, a quarter turn
HalfPi == F(1)

\* a / b for the b that occur: the determinant of a rotation, 1
FDiv(a, b) == IF a.nan \/ b.nan THEN NaN ELSE F(a.v \div b.v)

\* np.matrix([[c, s, t_x], [-s, c, t_y], [0, 0, 1]])
FrameMatrix(r, t_x, t_y) ==
    << <<cos(r), sin(r), t_x>>, <<FNeg(sin(r)), cos(r), t_y>>, <<F(0), F(0), F(1)>> >>

\* M @ v for a 3x3 matrix and a column
MatVec(M, v) ==
    [r \in 1..3 |->
        FAdd(FAdd(FMul(M[r][1], v[1]), FMul(M[r][2], v[2])), FMul(M[r][3], v[3]))]

Others(i) == IF i = 1 THEN <<2, 3>> ELSE IF i = 2 THEN <<1, 3>> ELSE <<1, 2>>

Minor(M, i, j) ==
    LET r == Others(i)
        c == Others(j)
    IN  FSub(FMul(M[r[1]][c[1]], M[r[2]][c[2]]), FMul(M[r[1]][c[2]], M[r[2]][c[1]]))

Cofactor(M, i, j) == IF (i + j) % 2 = 0 THEN Minor(M, i, j) ELSE FNeg(Minor(M, i, j))

Det3(M) ==
    FAdd(FAdd(FMul(M[1][1], Cofactor(M, 1, 1)), FMul(M[1][2], Cofactor(M, 1, 2))),
         FMul(M[1][3], Cofactor(M, 1, 3)))

Inv3Transpose(M) == [i \in 1..3 |-> [j \in 1..3 |-> M[j][i]]]

\* np.linalg.inv
Inv3(M) == [i \in 1..3 |-> [j \in 1..3 |-> FDiv(Cofactor(M, j, i), Det3(M))]]

\* transform_2d_points for one row xyz of the array
transform_2d_points(xyz, r1, t1_x, t1_y, r2, t2_x, t2_y) ==
    LET xy1 == <<xyz[1], xyz[2], F(1)>>
        world == MatVec(FrameMatrix(r1, t1_x, t1_y), xy1)
        world_to_r2 == Inv3(FrameMatrix(r2, t2_x, t2_y))
        out == MatVec(world_to_r2, world)
    IN  <<out[1], out[2], xyz[3]>>

----------------------------------------------------------------------------
(* SpecGeometry: transform_2d_points applied to a point p from frame A to  *)
(* frame B, and to the result from frame B back to frame A, for every      *)
(* point and every pair of frames with finite coordinates within the       *)
(* bounds (headings 0..GeoMaxTurn quarter turns).                          *)

GeoCoords == {0 - GeoMaxCoord, 0, GeoMaxCoord}

GeoFrames ==
    {[r |-> F(q), x |-> F(x), y |-> F(y)] :
        q \in 0..GeoMaxTurn, x \in GeoCoords, y \in GeoCoords}

GeoPoints ==
    {<<F(x), F(y), F(z)>> : x \in GeoCoords, y \in GeoCoords, z \in {0, GeoMaxCoord}}

GeoInit ==
    /\ \E p \in GeoPoints, A \in GeoFrames, B \in GeoFrames :
          geo = [pc |-> "start", p |-> p, A |-> A, B |-> B, there |-> p, back |-> p]
    /\ IxOff /\ ImgOff /\ AccOff /\ LifeOff /\ LabOff

\* transform_2d_points(p, rA, xA, yA, rB, xB, yB)
GeoThere ==
    /\ geo.pc = "start"
    /\ geo' = [geo EXCEPT
                !.pc = "there",
                !.there = transform_2d_points(geo.p, geo.A.r, geo.A.x, geo.A.y,
                                              geo.B.r, geo.B.x, geo.B.y)]
    /\ UNCHANGED <<ix, img, dset, dset0, calls, disk, ctor, lab>>

\* transform_2d_points(the result, rB, xB, yB, rA, xA, yA)
GeoBack ==
    /\ geo.pc = "there"
    /\ geo' = [geo EXCEPT
                !.pc = "back",
                !.back = transform_2d_points(geo.there, geo.B.r, geo.B.x, geo.B.y,
                                             geo.A.r, geo.A.x, geo.A.y)]
    /\ UNCHANGED <<ix, img, dset, dset0, calls, disk, ctor, lab>>

GeoNext == GeoThere \/ GeoBack

SpecGeometry == GeoInit /\ [][GeoNext]_vars

\* C12: a point taken from frame A to frame B and back to frame A is the
\* point itself, x and y restored and the third coordinate as it was on the
\* way; taken from a frame to the same frame it does not move
C12_RoundTrip ==
    /\ geo.pc = "back" => geo.back = geo.p
    /\ geo.pc \in {"there", "back"} =>
          /\ geo.there[3] = geo.p[3]
          /\ geo.A = geo.B => geo.there = geo.p

\* a point that the way there moved (the frames differ in heading and in
\* origin) is back where it was
C12_Witness ==
    /\ geo.pc = "back"
    /\ geo.A.r # geo.B.r /\ geo.A.x # geo.B.x /\ geo.A.y # geo.B.y
    /\ geo.there[1] # geo.p[1] /\ geo.there[2] # geo.p[2]
    /\ geo.p[3] = F(0)
    /\ geo.back = geo.p

----------------------------------------------------------------------------
(* Dataset accessor: CARLA_Data2.__len__ and __getitem__.                  *)
(* d is the object [config, fld]; c is one call [pc, index, i, data].      *)
(* seq_theta, seq_x, ... are references to the lists of self, so the call  *)
(* reads and writes d.fld at its index.                                    *)

\* __len__
DatasetLen(d) == Len(d.fld["front"])

\* Python's list[index]: the position (from 1) a valid index names
ListPos(index, n) == IF index < 0 THEN index + n + 1 ELSE index + 1

\* whether list[index] is an element of a list of n entries (no IndexError)
ListIndexOk(index, n) == 0 - n <= index /\ index < n

\* data[key] = value
DictSet(data, key, value) ==
    [k \in DOMAIN data \cup {key} |-> IF k = key THEN value ELSE data[k]]

\* torch.from_numpy(np.array(scale_and_crop_image(Image.open(path), ...)))
Preprocessed(path, config) ==
    [image |-> path, scale |-> config.scale, crop |-> config.input_resolution]

\* lines 209-221: the dict and the seven list lookups
GetItemStart(d, index) ==
    IF \A f \in {"front", "left", "right", "rear", "x", "y", "theta"} :
          ListIndexOk(index, Len(d.fld[f]))
    THEN [pc |-> "loop", index |-> index, i |-> 0,
          data |-> [k \in {"fronts", "lefts", "rights", "rears"} |-> <<>>]]
    ELSE [pc |-> "raised", index |-> index, i |-> 0, data |-> <<>>]

Pos(d, c) == ListPos(c.index, Len(d.fld["theta"]))

\* lines 224-233: the images of step c.i
GetItemImages(d, c) ==
    LET k == ListPos(c.index, Len(d.fld["front"]))
        config == d.config
        fronts == Append(c.data["fronts"], Preprocessed(d.fld["front"][k][c.i + 1], config))
        lefts == IF ~config.ignore_sides
                 THEN Append(c.data["lefts"], Preprocessed(d.fld["left"][k][c.i + 1], config))
                 ELSE c.data["lefts"]
        rights == IF ~config.ignore_sides
                  THEN Append(c.data["rights"], Preprocessed(d.fld["right"][k][c.i + 1], config))
                  ELSE c.data["rights"]
        rears == IF ~config.ignore_rear
                 THEN Append(c.data["rears"], Preprocessed(d.fld["rear"][k][c.i + 1], config))
                 ELSE c.data["rears"]
    IN  [c.data EXCEPT !["fronts"] = fronts, !["lefts"] = lefts,
                       !["rights"] = rights, !["rears"] = rears]

\* the end of one pass of `for i in range(self.seq_len)`
GetItemAdvance(d, c) ==
    IF c.i + 1 < d.config.seq_len THEN [c EXCEPT !.pc = "loop", !.i = c.i + 1]
    ELSE [c EXCEPT !.pc = "rest"]

\* lines 224-236: the images of step c.i and `if np.isnan(seq_theta[i])`
GetItemLoad(d, c) ==
    LET c1 == [c EXCEPT !.data = GetItemImages(d, c)]
    IN  IF isnan(d.fld["theta"][Pos(d, c)][c.i + 1])
        THEN [c1 EXCEPT !.pc = "fix"]
        ELSE GetItemAdvance(d, c1)

\* line 237: seq_theta[i] = 0., a write into self.theta[index]
GetItemFix(d, c) == [d EXCEPT !.fld["theta"][Pos(d, c)][c.i + 1] = F(0)]

\* lines 239-253: the waypoints of the window in the ego frame
Waypoints(d, c) ==
    LET k == Pos(d, c)
        seq_x == d.fld["x"][k]
        seq_y == d.fld["y"][k]
        seq_theta == d.fld["theta"][k]
        ego_x == seq_x[c.i + 1]
        ego_y == seq_y[c.i + 1]
        ego_theta == seq_theta[c.i + 1]
    IN  [i \in 1..(d.config.seq_len + d.config.pred_len) |->
            LET local_waypoint ==
                    transform_2d_points(<<F(0), F(0), F(0)>>,
                        FSub(HalfPi, seq_theta[i]), FNeg(seq_x[i]), FNeg(seq_y[i]),
                        FSub(HalfPi, ego_theta), FNeg(ego_x), FNeg(ego_y))
            IN  <<local_waypoint[1], local_waypoint[2]>>]

\* lines 257-263: the goal point in the ego frame, R.T.dot(...)
TargetPoint(d, c) ==
    LET k == Pos(d, c)
        ego_x == d.fld["x"][k][c.i + 1]
        ego_y == d.fld["y"][k][c.i + 1]
        ego_theta == d.fld["theta"][k][c.i + 1]
        co == cos(FAdd(HalfPi, ego_theta))
        si == sin(FAdd(HalfPi, ego_theta))
        dx == FSub(d.fld["x_command"][ListPos(c.index, Len(d.fld["x_command"]))], ego_x)
        dy == FSub(d.fld["y_command"][ListPos(c.index, Len(d.fld["y_command"]))], ego_y)
    IN  <<FAdd(FMul(co, dx), FMul(si, dy)), FAdd(FMul(FNeg(si), dx), FMul(co, dy))>>

LabelOf == [steer |-> "steer", throttle |-> "throttle", brake |-> "brake",
            command |-> "command", velocity |-> "velocity"]

\* lines 239-271: everything after the loop
GetItemRest(d, c) ==
    IF \/ Len(d.fld["x"][Pos(d, c)]) < d.config.seq_len + d.config.pred_len
       \/ Len(d.fld["y"][Pos(d, c)]) < d.config.seq_len + d.config.pred_len
       \/ Len(d.fld["theta"][Pos(d, c)]) < d.config.seq_len + d.config.pred_len
       \/ \E f \in {"x_command", "y_command", "steer", "throttle", "brake",
                    "command", "velocity"} : ~ListIndexOk(c.index, Len(d.fld[f]))
    THEN [c EXCEPT !.pc = "raised", !.data = <<>>]
    ELSE [c EXCEPT !.pc = "returned",
            !.data = [k \in DOMAIN c.data \cup
                            {"waypoints", "target_point", "steer", "throttle",
                             "brake", "command", "velocity"} |->
                        IF k \in DOMAIN c.data THEN c.data[k]
                        ELSE IF k = "waypoints" THEN Waypoints(d, c)
                        ELSE IF k = "target_point" THEN TargetPoint(d, c)
                        ELSE d.fld[LabelOf[k]][ListPos(c.index, Len(d.fld[LabelOf[k]]))]]]

\* one step of a call: the object and the call after it
GetItemStep(d, c) ==
    CASE c.pc = "loop" -> [d |-> d, c |-> GetItemLoad(d, c)]
      [] c.pc = "fix" -> [d |-> GetItemFix(d, c), c |-> GetItemAdvance(d, c)]
      [] c.pc = "rest" -> [d |-> d, c |-> GetItemRest(d, c)]
      [] OTHER -> [d |-> d, c |-> c]

RECURSIVE GetItemRun(_, _)
\* a call run to its end with no other call beside it
GetItemRun(d, c) ==
    IF c.pc \in {"returned", "raised"} THEN [d |-> d, c |-> c]
    ELSE GetItemRun(GetItemStep(d, c).d, GetItemStep(d, c).c)

\* __getitem__(index) run alone on the object d
GetItemAlone(d, index) == GetItemRun(d, GetItemStart(d, index)).c

----------------------------------------------------------------------------
(* SpecAccess: a CARLA_Data2 object built by the indexer from one route,   *)
(* some of whose measurement records have theta = NaN, and two loader      *)
(* workers that call __getitem__ on it, each call any number of times with *)
(* any index, their steps interleaved.                                     *)

AccRoutes ==
    {[name |-> "route0", nfront |-> AccMaxFrames, nmeas |-> AccMaxFrames,
      nan |-> nan, ver |-> 0] :
        nan \in {S \in SUBSET (0..(AccMaxFrames - 1)) : Cardinality(S) <= AccMaxNaN}}

AccInit ==
    /\ \E s \in 1..AccMaxSeqLen, p \in 0..AccMaxPredLen, sides \in BOOLEAN,
          rear \in BOOLEAN, route \in AccRoutes :
          /\ dset = [config |-> Config(s, p, sides, rear),
                     fld |-> IndexRoute([ok |-> TRUE, pre |-> EmptyPreload],
                                        "root0", route, s, p).pre]
          /\ dset0 = [config |-> Config(s, p, sides, rear),
                      fld |-> dset.fld, route |-> route]
    /\ calls = [w \in Workers |-> IdleCall]
    /\ IxOff /\ ImgOff /\ LifeOff /\ LabOff /\ GeoOff

\* a worker calls dataset[index]
AccCall(w) ==
    /\ calls[w].pc = "idle"
    /\ \E index \in (0 - DatasetLen(dset) - 1)..DatasetLen(dset) :
          calls' = [calls EXCEPT ![w] = GetItemStart(dset, index)]
    /\ UNCHANGED <<ix, img, dset, dset0, disk, ctor, lab, geo>>

\* the worker's call takes its next step
AccStep(w, pc) ==
    /\ calls[w].pc = pc
    /\ dset' = GetItemStep(dset, calls[w]).d
    /\ calls' = [calls EXCEPT ![w] = GetItemStep(dset, calls[w]).c]
    /\ UNCHANGED <<ix, img, dset0, disk, ctor, lab, geo>>

AccLoad(w) == AccStep(w, "loop")

AccFix(w) == AccStep(w, "fix")

AccRest(w) == AccStep(w, "rest")

\* the worker takes the Sample, or the exception, and is free again
AccDone(w) ==
    /\ calls[w].pc \in {"returned", "raised"}
    /\ calls' = [calls EXCEPT ![w] = IdleCall]
    /\ UNCHANGED <<ix, img, dset, dset0, disk, ctor, lab, geo>>

AccNext ==
    \E w \in Workers :
        \/ AccCall(w)
        \/ AccLoad(w)
        \/ AccFix(w)
        \/ AccRest(w)
        \/ AccDone(w)

SpecAccess == AccInit /\ [][AccNext]_vars

\* the frames (numbers in the route) behind the steps of the window a call reads
CallFrames(w) ==
    LET n == DatasetLen(dset0)
        k == ListPos(calls[w].index, n) - 1
    IN  [j \in 1..(dset0.config.seq_len + dset0.config.pred_len) |->
            FrameOf(k, dset0.config.seq_len, j - 1)]

\* the object with every NaN heading replaced by 0
ZeroedHeadings(d) ==
    [config |-> d.config,
     fld |-> [d.fld EXCEPT !["theta"] =
                [k \in DOMAIN @ |->
                    [j \in DOMAIN @[k] |-> IF isnan(@[k][j]) THEN F(0) ELSE @[k][j]]]]]

\* C7: a NaN heading, at a past/current or at a future step of the window, is
\* replaced by 0 before the transform uses it as source or as ego heading, so
\* every waypoint and the goal point of a returned Sample is finite (and no
\* call on a valid index raises).
C7_NaNHeadingSubstituted ==
    \A w \in Workers :
        /\ calls[w].pc = "returned" =>
            /\ \A i \in DOMAIN calls[w].data["waypoints"] :
                /\ IsFinite(calls[w].data["waypoints"][i][1])
                /\ IsFinite(calls[w].data["waypoints"][i][2])
            /\ IsFinite(calls[w].data["target_point"][1])
            /\ IsFinite(calls[w].data["target_point"][2])
            /\ calls[w].data["waypoints"] =
                Waypoints(ZeroedHeadings(dset0), calls[w])
            /\ calls[w].data["target_point"] =
                TargetPoint(ZeroedHeadings(dset0), calls[w])
        /\ calls[w].pc = "raised" =>
            ~ListIndexOk(calls[w].index, DatasetLen(dset0))

\* a Sample returned for a window with a NaN heading at its ego step and at a
\* future step
C7_Witness ==
    \E w \in Workers :
        /\ calls[w].pc = "returned"
        /\ dset0.config.pred_len >= 1
        /\ CallFrames(w)[dset0.config.seq_len] \in dset0.route.nan
        /\ CallFrames(w)[dset0.config.seq_len + 1] \in dset0.route.nan

\* C8 as claimed: the accessor is stateless, no call changes dataset state
\* that another call reads (a later call on the same index, here).
C8_NoCallChangesDataset == [][dset' = dset]_vars

\* C8, what holds: whatever the interleaving and the earlier calls, a call
\* ends as it would alone on the object as constructed (the same Sample, or
\* the same exception), and all a call changes of the object is a NaN heading
\* of a past/current step of its own window, which it sets to 0.
C8_SameSampleAsAlone ==
    /\ \A w \in Workers :
        calls[w].pc \in {"returned", "raised"} =>
            /\ calls[w].pc = GetItemAlone(dset0, calls[w].index).pc
            /\ calls[w].data = GetItemAlone(dset0, calls[w].index).data
    /\ dset.config = dset0.config
    /\ \A f \in FieldNames \ {"theta"} : dset.fld[f] = dset0.fld[f]
    /\ \A k \in DOMAIN dset.fld["theta"] : \A j \in DOMAIN dset.fld["theta"][k] :
        \/ dset.fld["theta"][k][j] = dset0.fld["theta"][k][j]
        \/ /\ isnan(dset0.fld["theta"][k][j])
           /\ dset.fld["theta"][k][j] = F(0)
           /\ j <= dset0.config.seq_len

\* two calls on distinct indices in flight, one of them past a NaN fix
C8_Witness ==
    /\ calls["w1"].pc = "returned" /\ calls["w2"].pc = "rest"
    /\ ListPos(calls["w1"].index, DatasetLen(dset0)) #
        ListPos(calls["w2"].index, DatasetLen(dset0))
    /\ dset # [config |-> dset0.config, fld |-> dset0.fld]

\* C10: get(index) with an index outside [0, len()), negative ones included,
\* fails with an out-of-range error and returns no Sample; inside the range it
\* returns the Sample of that window.
C10_OutOfRangeFails ==
    \A w \in Workers :
        /\ calls[w].pc = "returned" =>
            (0 <= calls[w].index /\ calls[w].index < DatasetLen(dset0))
        /\ calls[w].pc = "raised" =>
            ~(0 <= calls[w].index /\ calls[w].index < DatasetLen(dset0))

\* C10, what holds: an index in [-len(), len()) returns the Sample of the
\* window it names as a Python list does, and any other index raises
C10_PythonIndexing ==
    \A w \in Workers :
        /\ calls[w].pc = "returned" =>
            (0 - DatasetLen(dset0) <= calls[w].index /\ calls[w].index < DatasetLen(dset0))
        /\ calls[w].pc = "raised" =>
            ~(0 - DatasetLen(dset0) <= calls[w].index /\ calls[w].index < DatasetLen(dset0))

\* C11 as claimed: in a returned Sample the key of a view that the
\* configuration disables (lefts and rights under ignore_sides, rears under
\* ignore_rear) is not there at all, and fronts has seq_len entries
C11_DisabledViewsAbsent ==
    \A w \in Workers :
        calls[w].pc = "returned" =>
            /\ dset.config.ignore_sides =>
                  ("lefts" \notin DOMAIN calls[w].data /\
                   "rights" \notin DOMAIN calls[w].data)
            /\ dset.config.ignore_rear => "rears" \notin DOMAIN calls[w].data
            /\ "fronts" \in DOMAIN calls[w].data
            /\ Len(calls[w].data["fronts"]) = dset.config.seq_len

\* C11, what holds: all four view keys are in every returned Sample, a
\* disabled view with the empty list, an enabled one with seq_len entries
C11_DisabledViewsEmpty ==
    \A w \in Workers :
        calls[w].pc = "returned" =>
            /\ {"fronts", "lefts", "rights", "rears"} \subseteq DOMAIN calls[w].data
            /\ Len(calls[w].data["fronts"]) = dset.config.seq_len
            /\ \A k \in {"lefts", "rights"} :
                  Len(calls[w].data[k]) =
                    IF dset.config.ignore_sides THEN 0 ELSE dset.config.seq_len
            /\ Len(calls[w].data["rears"]) =
                    IF dset.config.ignore_rear THEN 0 ELSE dset.config.seq_len

\* C12 in the accessor: the waypoint of the ego pose (index seq_len - 1 of
\* the list) of every returned Sample is (0, 0)
C12_EgoWaypointIsOrigin ==
    \A w \in Workers :
        calls[w].pc = "returned" =>
            calls[w].data["waypoints"][dset.config.seq_len] = <<F(0), F(0)>>

----------------------------------------------------------------------------
(* Preload cache: CARLA_Data2.__init__, the body of `for sub_root in root`. *)
(* d is the disk: d[sub_root] = [routes, files], routes the route           *)
(* directories in the order os.listdir gives them, files the plain files of *)
(* the root by name, each [dict, by, routes]: the object the file holds and, *)
(* as history, who wrote it and the route directories it was built from.    *)
(* c is one constructor activation.                                         *)

\* 'rg_lidar_diag_pl_'+str(self.seq_len)+'_'+str(self.pred_len)+'.npy'
PreloadName(seq_len, pred_len) == <<"rg_lidar_diag_pl_", seq_len, pred_len, ".npy">>

\* os.path.exists(preload_file)
PathExists(d, sub_root, name) == name \in DOMAIN d[sub_root].files

PathExistsAndFresh(d, sub_root, name) ==
    /\ name \in DOMAIN d[sub_root].files
    /\ d[sub_root].files[name].routes = d[sub_root].routes

RECURSIVE IndexRoutes(_, _, _, _, _, _)
\* `for route in routes`, from the k-th route on
IndexRoutes(r, sub_root, routes, k, seq_len, pred_len) ==
    IF ~r.ok \/ k > Len(routes) THEN r
    ELSE IndexRoutes(IndexRoute(r, sub_root, routes[k], seq_len, pred_len),
                     sub_root, routes, k + 1, seq_len, pred_len)

\* lines 85-164: the 14 lists built from every route under sub_root
BuildPreload(d, sub_root, seq_len, pred_len) ==
    IndexRoutes([ok |-> TRUE, pre |-> EmptyPreload], sub_root,
                d[sub_root].routes, 1, seq_len, pred_len)

\* np.save(preload_file, preload_dict), with the routes it was built from
np_save(d, sub_root, name, dict) ==
    [d EXCEPT ![sub_root].files =
        DictSet(@, name, [dict |-> dict, by |-> "CARLA_Data2",
                          routes |-> d[sub_root].routes])]

\* np.load(preload_file, allow_pickle=True).item()
np_load(d, sub_root, name) == d[sub_root].files[name].dict

ConcatenateBrakeFromThrottle(self, dict) ==
    [f \in FieldNames |-> self[f] \o dict[IF f = "brake" THEN "throttle" ELSE f]]

\* lines 187-200: self.front += ...['front'] and so on
Concatenate(self, dict) == [f \in FieldNames |-> self[f] \o dict[f]]

\* a constructor called with the list `root`
CtorStart(config, root) ==
    [pc |-> "check", config |-> config, root |-> root, k |-> 1,
     self |-> EmptyPreload, preload |-> EmptyPreload, built |-> FALSE,
     loaded |-> <<>>]

SubRoot(c) == c.root[c.k]

PreloadFile(c) == PreloadName(c.config.seq_len, c.config.pred_len)

CtorCheckStaleness(d, c) ==
    IF PathExistsAndFresh(d, c.root[c.k], PreloadName(c.config.seq_len, c.config.pred_len))
    THEN [c EXCEPT !.pc = "load", !.built = FALSE]
    ELSE [c EXCEPT !.pc = "index", !.built = FALSE]

\* line 84: if not os.path.exists(preload_file)
CtorCheck(d, c) ==
    IF PathExists(d, SubRoot(c), PreloadFile(c))
    THEN [c EXCEPT !.pc = "load", !.built = FALSE]
    ELSE [c EXCEPT !.pc = "index", !.built = FALSE]

\* lines 85-164: index every route; a measurement file that is not there raises
CtorIndex(d, c) ==
    LET r == BuildPreload(d, SubRoot(c), c.config.seq_len, c.config.pred_len)
    IN  IF r.ok THEN [c EXCEPT !.pc = "save", !.preload = r.pre, !.built = TRUE]
        ELSE [c EXCEPT !.pc = "raised"]

\* lines 167-182: the disk after np.save
CtorSave(d, c) == np_save(d, SubRoot(c), PreloadFile(c), c.preload)

\* lines 185-201: load the file and extend the lists of self; `loaded` keeps,
\* for each root done, how many windows it gave and where they came from
CtorLoad(d, c) ==
    IF ~PathExists(d, SubRoot(c), PreloadFile(c)) THEN [c EXCEPT !.pc = "raised"]
    ELSE LET dict == np_load(d, SubRoot(c), PreloadFile(c))
         IN  IF ~(FieldNames \subseteq DOMAIN dict) THEN [c EXCEPT !.pc = "raised"]
             ELSE [c EXCEPT
                    !.pc = IF c.k < Len(c.root) THEN "check" ELSE "done",
                    !.k = c.k + 1,
                    !.self = Concatenate(c.self, dict),
                    !.loaded = Append(@,
                        [root |-> SubRoot(c), count |-> Len(dict["front"]),
                         built |-> c.built,
                         by |-> d[SubRoot(c)].files[PreloadFile(c)].by])]

----------------------------------------------------------------------------
(* Spec: the life of the preload caches of two data roots.  One process     *)
(* constructs CARLA_Data2 objects over lists of the roots, one after the    *)
(* other, each construction a sequence of steps (exists-check, indexing,    *)
(* np.save, np.load per root); between any two steps a route may be         *)
(* recorded anew, a cache file deleted, or a cache file put there by        *)
(* something else than this code.                                           *)

Roots == {"rootA", "rootB"}

RootLists == {<<"rootA">>, <<"rootA", "rootB">>, <<"rootB", "rootA">>}

\* recording `variant` (0 or 1) of a route directory; ver tells the root, the
\* route and the recording
RouteOnDisk(sub_root, name, variant) ==
    [name |-> name,
     nfront |-> LifeMaxFrames - 1 + variant,
     nmeas |-> LifeMaxFrames - 1 + variant,
     nan |-> {},
     ver |-> (IF sub_root = "rootA" THEN (IF name = "route0" THEN 0 ELSE 2) ELSE 4)
             + variant]

OtherRecording(sub_root, route) ==
    RouteOnDisk(sub_root, route.name, (route.ver + 1) % 2)

NoFiles == <<>>

LifeProcs == {"p1"}

LifeInit ==
    /\ \E va \in {0, 1}, vb \in {0, 1} :
          disk = [r \in Roots |->
                    IF r = "rootA"
                    THEN [routes |-> <<RouteOnDisk(r, "route0", va),
                                       RouteOnDisk(r, "route1", 0)>>,
                          files |-> NoFiles]
                    ELSE [routes |-> <<RouteOnDisk(r, "route0", vb)>>,
                          files |-> NoFiles]]
    /\ \E p \in 0..LifeMaxPredLen :
          ctor = [q \in Procs |-> [pc |-> "idle", config |-> Config(1, p, TRUE, TRUE)]]
    /\ IxOff /\ ImgOff /\ AccOff /\ LabOff /\ GeoOff

\* CARLA_Data2(root, config) is called
LifeBegin(p) ==
    /\ ctor[p].pc = "idle"
    /\ \E root \in RootLists :
          ctor' = [ctor EXCEPT ![p] = CtorStart(ctor[p].config, root)]
    /\ UNCHANGED <<ix, img, dset, dset0, calls, disk, lab, geo>>

LifeCheck(p) ==
    /\ ctor[p].pc = "check"
    /\ ctor' = [ctor EXCEPT ![p] = CtorCheck(disk, ctor[p])]
    /\ UNCHANGED <<ix, img, dset, dset0, calls, disk, lab, geo>>

LifeIndex(p) ==
    /\ ctor[p].pc = "index"
    /\ ctor' = [ctor EXCEPT ![p] = CtorIndex(disk, ctor[p])]
    /\ UNCHANGED <<ix, img, dset, dset0, calls, disk, lab, geo>>

LifeSave(p) ==
    /\ ctor[p].pc = "save"
    /\ disk' = CtorSave(disk, ctor[p])
    /\ ctor' = [ctor EXCEPT ![p].pc = "load"]
    /\ UNCHANGED <<ix, img, dset, dset0, calls, lab, geo>>

LifeLoad(p) ==
    /\ ctor[p].pc = "load"
    /\ ctor' = [ctor EXCEPT ![p] = CtorLoad(disk, ctor[p])]
    /\ UNCHANGED <<ix, img, dset, dset0, calls, disk, lab, geo>>

\* the constructor has returned, or raised: the process is free again
LifeEnd(p) ==
    /\ ctor[p].pc \in {"done", "raised"}
    /\ ctor' = [ctor EXCEPT ![p] = [pc |-> "idle", config |-> ctor[p].config]]
    /\ UNCHANGED <<ix, img, dset, dset0, calls, disk, lab, geo>>

\* route0 of a root is recorded anew
EnvRerecord(r) ==
    /\ disk' = [disk EXCEPT ![r].routes[1] = OtherRecording(r, @)]
    /\ UNCHANGED <<ix, img, dset, dset0, calls, ctor, lab, geo>>

\* a cache file is deleted
EnvDeleteCache(r) ==
    /\ \E name \in DOMAIN disk[r].files :
          disk' = [disk EXCEPT ![r].files =
                        [n \in DOMAIN @ \ {name} |-> @[n]]]
    /\ UNCHANGED <<ix, img, dset, dset0, calls, ctor, lab, geo>>

\* a cache that this code did not write: the lists of the root as the indexer
\* would build them, but one entry more in `steer`
ForeignDict(d, r, config) ==
    [BuildPreload(d, r, config.seq_len, config.pred_len).pre
        EXCEPT !["steer"] = Append(@, 0)]

\* a cache file of the name this code uses is put into a root by something else
EnvForeignCache(r) ==
    /\ \E p \in LifeProcs :
          disk' = [disk EXCEPT ![r].files =
                    DictSet(@, PreloadFile(ctor[p]),
                            [dict |-> ForeignDict(disk, r, ctor[p].config),
                             by |-> "other", routes |-> disk[r].routes])]
    /\ UNCHANGED <<ix, img, dset, dset0, calls, ctor, lab, geo>>

LifeNext ==
    \/ \E p \in LifeProcs :
        \/ LifeBegin(p)
        \/ LifeCheck(p)
        \/ LifeIndex(p)
        \/ LifeSave(p)
        \/ LifeLoad(p)
        \/ LifeEnd(p)
    \/ \E r \in Roots :
        \/ EnvRerecord(r)
        \/ EnvDeleteCache(r)
        \/ EnvForeignCache(r)

Spec == LifeInit /\ [][LifeNext]_vars

\* the windows the routes of a root give, counted route by route
RECURSIVE SumWindows(_, _, _)
SumWindows(routes, seq_len, pred_len) ==
    IF routes = <<>> THEN 0
    ELSE Max(0, (Head(routes).nfront - pred_len - 2) \div seq_len)
         + SumWindows(Tail(routes), seq_len, pred_len)

CacheOf(c) == <<"rg_lidar_diag_pl_", c.config.seq_len, c.config.pred_len, ".npy">>

CacheThere(c) == CacheOf(c) \in DOMAIN disk[c.root[c.k]].files

\* C2: a construction that finds the cache file of a root uses it as it is and
\* indexes no route, whatever the route files are by now; one that finds none
\* indexes every route under the root and writes the file before it loads it;
\* so indexing starts only at an exists-check that found the file absent.
C2_TrustTheCache ==
    [][\A p \in Procs :
        LET c == ctor[p]
            c2 == ctor'[p]
        IN  /\ (c.pc = "check" /\ c2 # c) =>
                c2.pc = (IF CacheThere(c) THEN "load" ELSE "index")
            /\ (c2.pc = "index" /\ c.pc # "index") =>
                (c.pc = "check" /\ ~CacheThere(c))
            /\ (c.pc = "index" /\ c2.pc = "save") =>
                /\ \A f \in FieldNames :
                    Len(c2.preload[f]) =
                        SumWindows(disk[c.root[c.k]].routes,
                                   c.config.seq_len, c.config.pred_len)
                /\ disk' = disk
            /\ (c.pc = "save" /\ c2 # c) =>
                /\ c2.pc = "load"
                /\ CacheOf(c) \in DOMAIN disk'[c.root[c.k]].files
                /\ disk'[c.root[c.k]].files[CacheOf(c)].dict = c.preload
            /\ (c.pc = "load" /\ c2.pc \in {"check", "done"}) =>
                /\ CacheThere(c)
                /\ \A f \in FieldNames :
                    c2.self[f] = c.self[f] \o disk[c.root[c.k]].files[CacheOf(c)].dict[f]
    ]_vars

\* a construction over two roots is done: it took the first root from a cache
\* file that no longer matches the routes on disk, and indexed the second
C2_Witness ==
    \E p \in Procs :
        /\ ctor[p].pc = "done" /\ Len(ctor[p].loaded) = 2
        /\ ~ctor[p].loaded[1].built /\ ctor[p].loaded[1].by = "CARLA_Data2"
        /\ CacheOf(ctor[p]) \in DOMAIN disk[ctor[p].root[1]].files
        /\ disk[ctor[p].root[1]].files[CacheOf(ctor[p])].routes #
                disk[ctor[p].root[1]].routes
        /\ ctor[p].loaded[2].built

\* C3: a cache file whose lists do not all have the same length is rejected:
\* no construction completes with one, none yields lists of different lengths.
C3_MismatchedCacheRejected ==
    \A p \in Procs :
        ctor[p].pc = "done" =>
            /\ \A f, g \in FieldNames : Len(ctor[p].self[f]) = Len(ctor[p].self[g])
            /\ \A i \in DOMAIN ctor[p].loaded : ctor[p].loaded[i].by = "CARLA_Data2"

RECURSIVE SumCounts(_)
SumCounts(loaded) ==
    IF loaded = <<>> THEN 0 ELSE Head(loaded).count + SumCounts(Tail(loaded))

RECURSIVE RootOfIndex(_, _)
\* the root whose windows hold position i (from 1) of the concatenation
RootOfIndex(loaded, i) ==
    IF i <= Head(loaded).count THEN Head(loaded).root
    ELSE RootOfIndex(Tail(loaded), i - Head(loaded).count)

\* the root and the route directory a recording number belongs to
HomeOfVer(v) ==
    IF v \in {0, 1} THEN <<"rootA", "route0">>
    ELSE IF v \in {2, 3} THEN <<"rootA", "route1">>
    ELSE <<"rootB", "route0">>

\* position i of every list of `self` speaks of one window: the frames
\* k-s+1 .. k of one recording of one route, and the p frames after them
WindowAligned(self, i, s, p) ==
    LET last == self["front"][i][s]
        k == DigitsValue(last[4])
        v == self["y"][i][1].v
    IN  /\ Len(self["front"][i]) = s
        /\ <<last[1], last[2]>> = HomeOfVer(v)
        /\ \A j \in 1..s :
            /\ self["front"][i][j] = <<last[1], last[2], "rgb_front", FrameName(k - s + j)>>
            /\ self["left"][i][j] = <<last[1], last[2], "rgb_left", FrameName(k - s + j)>>
            /\ self["right"][i][j] = <<last[1], last[2], "rgb_right", FrameName(k - s + j)>>
            /\ self["rear"][i][j] = <<last[1], last[2], "rgb_rear", FrameName(k - s + j)>>
        /\ self["x"][i] = [j \in 1..(s + p) |-> F(k - s + j)]
        /\ self["y"][i] = [j \in 1..(s + p) |-> F(v)]
        /\ self["theta"][i] = [j \in 1..(s + p) |-> F((k - s + j + v) % 4)]
        /\ self["x_command"][i] = F(k + 2)
        /\ self["y_command"][i] = F(v + 1)
        /\ self["steer"][i] = 100 + k
        /\ self["throttle"][i] = 200 + k
        /\ self["brake"][i] = 300 + k
        /\ self["command"][i] = 400 + k
        /\ self["velocity"][i] = 500 + k

\* C4: after a construction over a list of roots, each freshly indexed or
\* loaded from a cache this code wrote, the 14 lists have one length, the sum
\* of the window counts of the roots; position i of every list is the same
\* window, and the windows of the roots follow each other in list order.
C4_FieldsAligned ==
    \A p \in Procs :
        (/\ ctor[p].pc = "done"
         /\ \A i \in DOMAIN ctor[p].loaded : ctor[p].loaded[i].by = "CARLA_Data2") =>
            /\ Len(ctor[p].loaded) = Len(ctor[p].root)
            /\ \A r \in DOMAIN ctor[p].root : ctor[p].loaded[r].root = ctor[p].root[r]
            /\ \A f \in FieldNames :
                Len(ctor[p].self[f]) = SumCounts(ctor[p].loaded)
            /\ \A i \in 1..SumCounts(ctor[p].loaded) :
                /\ WindowAligned(ctor[p].self, i, ctor[p].config.seq_len,
                                 ctor[p].config.pred_len)
                /\ ctor[p].self["front"][i][1][1] = RootOfIndex(ctor[p].loaded, i)

\* a construction over two roots is done with windows of both, one root
\* indexed by it and one taken from a cache file
C4_Witness ==
    \E p \in Procs :
        /\ ctor[p].pc = "done" /\ Len(ctor[p].loaded) = 2
        /\ ctor[p].loaded[1].count >= 1 /\ ctor[p].loaded[2].count >= 2
        /\ ctor[p].loaded[1].built /\ ~ctor[p].loaded[2].built
        /\ \A i \in 1..2 : ctor[p].loaded[i].by = "CARLA_Data2"

----------------------------------------------------------------------------
(* SpecIntegrity: CARLA_Data2 constructed over roots whose route            *)
(* directories are not all complete.  A route is one of                    *)
(*   whole    every image and every measurement record of the recording    *)
(*   short    one frame only, too few for a window                         *)
(*   nomeas   the images, but only measurement record 0000                 *)
(*   nofront  rgb_front lacks the image of frame 0001                      *)
(*   noleft   rgb_left lacks the image of frame 0001                       *)
(*   nodir    a directory with nothing in it, no rgb_front                 *)
(* and nothing on disk changes while the constructors run.                 *)

Views == {"rgb_front", "rgb_left", "rgb_right", "rgb_rear"}

RouteKinds == {"whole", "short", "nomeas", "nofront", "noleft", "nodir"}

\* the frames that have an image in each view directory of the route
IntImages(kind) ==
    [v \in Views |->
        CASE kind = "nodir" -> {}
          [] kind = "short" -> {0}
          [] kind = "nofront" /\ v = "rgb_front" -> (0..(IntMaxFrames - 1)) \ {1}
          [] kind = "noleft" /\ v = "rgb_left" -> (0..(IntMaxFrames - 1)) \ {1}
          [] OTHER -> 0..(IntMaxFrames - 1)]

IntRoute(kind, name, ver) ==
    [name |-> name, kind |-> kind,
     nfront |-> IF kind = "nodir" THEN 0 - 1
                ELSE Cardinality(IntImages(kind)["rgb_front"]),
     nmeas |-> CASE kind = "nodir" -> 0
                 [] kind \in {"short", "nomeas"} -> 1
                 [] OTHER -> IntMaxFrames,
     nan |-> {}, ver |-> ver, images |-> IntImages(kind)]

IntInit ==
    /\ \E k0 \in RouteKinds, k1 \in RouteKinds, kb \in RouteKinds :
          disk = [r \in Roots |->
                    IF r = "rootA"
                    THEN [routes |-> <<IntRoute(k0, "route0", 0),
                                       IntRoute(k1, "route1", 2)>>,
                          files |-> NoFiles]
                    ELSE [routes |-> <<IntRoute(kb, "route0", 4)>>,
                          files |-> NoFiles]]
    /\ \E p \in 0..IntMaxPredLen :
          ctor = [q \in Procs |-> [pc |-> "idle", config |-> Config(1, p, TRUE, TRUE)]]
    /\ IxOff /\ ImgOff /\ AccOff /\ LabOff /\ GeoOff

IntNext ==
    \E p \in LifeProcs :
        \/ LifeBegin(p)
        \/ LifeCheck(p)
        \/ LifeIndex(p)
        \/ LifeSave(p)
        \/ LifeLoad(p)
        \/ LifeEnd(p)

SpecIntegrity == IntInit /\ [][IntNext]_vars

\* whether the image file a path names is on disk
ImageOnDisk(path) ==
    \E i \in 1..Len(disk[path[1]].routes) :
        LET route == disk[path[1]].routes[i]
        IN  /\ route.name = path[2]
            /\ \E k \in route.images[path[3]] : FrameName(k) = path[4]

\* whether every image path of every window in the lists pre is on disk
ImagesOnDisk(pre) ==
    \A f \in {"front", "left", "right", "rear"} :
        \A n \in 1..Len(pre[f]) :
            \A i \in 1..Len(pre[f][n]) : ImageOnDisk(pre[f][n][i])

\* C13 as claimed: no window that refers to an absent frame file is produced
\* or persisted: every image path in a cache file the constructor wrote, and
\* in the lists of a constructor, names a file that is on disk
C13_AbsentFilesFailIndexing ==
    /\ \A r \in Roots :
          \A name \in DOMAIN disk[r].files :
              ImagesOnDisk(disk[r].files[name].dict)
    /\ \A p \in LifeProcs :
          ctor[p].pc \in {"check", "index", "save", "load", "done"} =>
              ImagesOnDisk(ctor[p].preload) /\ ImagesOnDisk(ctor[p].self)

\* C13, what holds: an absent measurement record of a window, and a route
\* directory without rgb_front, raise out of the constructor before anything
\* of the root is saved, so a root with a cache file has neither; a route too
\* short for a window gives none and stops nothing
C13_AbsentMeasurementFails ==
    /\ \A r \in Roots :
          DOMAIN disk[r].files # {} =>
              \A i \in 1..Len(disk[r].routes) :
                  disk[r].routes[i].kind \notin {"nodir"} /\
                  (disk[r].routes[i].kind = "nomeas" =>
                      \A p \in LifeProcs :
                          NumSeq(disk[r].routes[i].nfront, ctor[p].config.seq_len,
                                 ctor[p].config.pred_len) <= 0)
    /\ \A p \in LifeProcs :
          (ctor[p].pc = "raised" /\ ctor[p].k <= Len(ctor[p].root)) =>
              \E i \in 1..Len(disk[ctor[p].root[ctor[p].k]].routes) :
                  disk[ctor[p].root[ctor[p].k]].routes[i].kind \in {"nomeas", "nodir"}

----------------------------------------------------------------------------
(* Pseudo-label generator: Engine.get_labels (train.py), and the two       *)
(* dataset classes of data.py reading back what is on disk afterwards.     *)

LabelFieldNames ==
    {"front", "x", "y", "theta", "x_command", "y_command", "waypoints"}

\* preload_front = [] ... preload_waypoints = []
EmptyLabels == [f \in LabelFieldNames |-> <<>>]

\* 'rg_aim_pl_'+str(seq_len)+'_'+str(pred_len)+'.npy'
LabelsName(seq_len, pred_len) == <<"rg_aim_pl_", seq_len, pred_len, ".npy">>

\* [0]*n
Zeros(n) == [j \in 1..n |-> 0]

LabelWaypointsNoOrigin(pred_wp, i) ==
    [j \in 1..Len(pred_wp[1]) |-> <<pred_wp[i][j][1], pred_wp[i][j][2]>>]

\* wp = [(0.0,0.0)], then one append per j in range(len(pred_wp[0]))
LabelWaypoints(pred_wp, i) ==
    <<<<F(0), F(0)>>>> \o
    [j \in 1..Len(pred_wp[1]) |-> <<pred_wp[i][j][1], pred_wp[i][j][2]>>]

\* the body of `for i in range(len(pred_wp))`
AppendLabel(pre, data, pred_wp, i, pred_len) ==
    [pre EXCEPT
        !["front"] = Append(@, <<data.ssd_fronts[1][i]>>),
        !["x"] = Append(@, Zeros(pred_len + 1)),
        !["y"] = Append(@, Zeros(pred_len + 1)),
        !["theta"] = Append(@, Zeros(pred_len + 1)),
        !["x_command"] = Append(@, data.x_command[i]),
        !["y_command"] = Append(@, data.y_command[i]),
        !["waypoints"] = Append(@, LabelWaypoints(pred_wp, i))]

RECURSIVE LabelBatch(_, _, _, _, _)
\* `for i in range(len(pred_wp))`, from the i-th item of the batch on
LabelBatch(pre, data, pred_wp, i, pred_len) ==
    IF i > Len(pred_wp) THEN pre
    ELSE LabelBatch(AppendLabel(pre, data, pred_wp, i, pred_len),
                    data, pred_wp, i + 1, pred_len)

\* a batch of the unlabeled loader: b items, the n-th item of the run onwards
Batch(n, b) ==
    [ssd_fronts |-> <<[i \in 1..b |-> <<"unlabeled", n + i>>]>>,
     x_command |-> [i \in 1..b |-> F(n + i)],
     y_command |-> [i \in 1..b |-> F(n + i + 1)]]

Stubs == {"ahead", "curve"}

\* pred_wp = self.model(encoding, target_point): wps waypoints for each of
\* the b items of the batch
ModelStub(stub, n, b, wps) ==
    [i \in 1..b |->
        [j \in 1..wps |->
            IF stub = "ahead" THEN <<F(j), F(0)>> ELSE <<F(j), F(n + i + j)>>]]

\* the directory the labels are written to, and the directory of the file
\* CARLA_Data reads
SsdDir == "ssd_data"

PseudoDir == "poseconvgrut4l1"

PseudoName == "psuedo_waypoints.npy"

\* a pseudo-waypoint file as CARLA_Data reads it: key -> waypoints, target
PseudoDict ==
    <<[k |-> <<"pseudo", 1>>,
       v |-> [waypoints |-> <<<<F(0), F(0)>>, <<F(1), F(0)>>>>,
              target |-> <<F(5), F(0)>>]]>>

RECURSIVE RunCtor(_)
\* the constructor from where it is to its return or its exception
RunCtor(s) ==
    IF s.ctor.pc \in {"done", "raised"} THEN s
    ELSE IF s.ctor.pc = "check"
         THEN RunCtor([disk |-> s.disk, ctor |-> CtorCheck(s.disk, s.ctor)])
    ELSE IF s.ctor.pc = "index"
         THEN RunCtor([disk |-> s.disk, ctor |-> CtorIndex(s.disk, s.ctor)])
    ELSE IF s.ctor.pc = "save"
         THEN RunCtor([disk |-> CtorSave(s.disk, s.ctor),
                       ctor |-> [s.ctor EXCEPT !.pc = "load"]])
    ELSE RunCtor([disk |-> s.disk, ctor |-> CtorLoad(s.disk, s.ctor)])

\* CARLA_Data2(root, config)
CARLA_Data2(d, root, config) ==
    RunCtor([disk |-> d, ctor |-> CtorStart(config, root)])

\* CARLA_Data(root, config): np.load of the fixed path raises when the file
\* is not there
CARLA_Data(d, config) ==
    IF ~PathExists(d, PseudoDir, PseudoName)
    THEN [pc |-> "raised", front |-> <<>>, waypoints |-> <<>>, target |-> <<>>]
    ELSE LET items == np_load(d, PseudoDir, PseudoName)
         IN  [pc |-> "done",
              front |-> [i \in 1..Len(items) |-> <<items[i].k>>],
              waypoints |-> [i \in 1..Len(items) |-> items[i].v.waypoints],
              target |-> [i \in 1..Len(items) |-> items[i].v.target]]

----------------------------------------------------------------------------
(* SpecLabels: one run of get_labels over up to LabMaxBatches batches of   *)
(* up to LabMaxBatch unlabeled windows, a model returning wps waypoints    *)
(* per window, the np.save at its end; then CARLA_Data2 constructed over   *)
(* the directory written to, and CARLA_Data constructed.                   *)

LabRoute ==
    [name |-> "route0", nfront |-> LabMaxFrames, nmeas |-> LabMaxFrames,
     nan |-> {}, ver |-> 0]

LabInit ==
    /\ \E recorded \in BOOLEAN, pseudo \in BOOLEAN :
          disk = [r \in {SsdDir, PseudoDir} |->
                    IF r = SsdDir
                    THEN [routes |-> IF recorded THEN <<LabRoute>> ELSE <<>>,
                          files |-> NoFiles]
                    ELSE [routes |-> <<>>,
                          files |-> IF pseudo
                                    THEN DictSet(NoFiles, PseudoName,
                                                 [dict |-> PseudoDict,
                                                  by |-> "other",
                                                  routes |-> <<>>])
                                    ELSE NoFiles]]
    /\ \E p \in 0..LabMaxPredLen, wps \in 0..LabMaxWp :
          lab = [pc |-> "loop", config |-> Config(1, p, TRUE, TRUE),
                 wps |-> wps, seen |-> 0, batches |-> 0,
                 preload |-> EmptyLabels, preds |-> <<>>,
                 data2 |-> [pc |-> "none"], data1 |-> [pc |-> "none"]]
    /\ ctor = [q \in Procs |-> [pc |-> "idle"]]
    /\ IxOff /\ ImgOff /\ AccOff /\ GeoOff

\* one pass of `for data in tqdm(self.ss_dataloader)`
LabBatch ==
    /\ lab.pc = "loop"
    /\ lab.batches < LabMaxBatches
    /\ \E b \in 1..LabMaxBatch, stub \in Stubs :
          LET data == Batch(lab.seen, b)
              pred_wp == ModelStub(stub, lab.seen, b, lab.wps)
          IN  lab' = [lab EXCEPT
                        !.preload = LabelBatch(@, data, pred_wp, 1,
                                               lab.config.pred_len),
                        !.preds = @ \o pred_wp,
                        !.seen = @ + b,
                        !.batches = @ + 1]
    /\ UNCHANGED <<ix, img, dset, dset0, calls, disk, ctor, geo>>

\* lines 160-168: the loader is exhausted, preload_dict is saved
LabSave ==
    /\ lab.pc = "loop"
    /\ disk' = [disk EXCEPT ![SsdDir].files =
                  DictSet(@, LabelsName(lab.config.seq_len, lab.config.pred_len),
                          [dict |-> lab.preload, by |-> "get_labels",
                           routes |-> disk[SsdDir].routes])]
    /\ lab' = [lab EXCEPT !.pc = "saved"]
    /\ UNCHANGED <<ix, img, dset, dset0, calls, ctor, geo>>

\* CARLA_Data2(root=[the directory written to], config)
LabReloadData2 ==
    /\ lab.pc = "saved"
    /\ lab.data2.pc = "none"
    /\ LET s == CARLA_Data2(disk, <<SsdDir>>, lab.config)
       IN  /\ disk' = s.disk
           /\ lab' = [lab EXCEPT !.data2 = s.ctor]
    /\ UNCHANGED <<ix, img, dset, dset0, calls, ctor, geo>>

\* CARLA_Data(root, config)
LabReloadData ==
    /\ lab.pc = "saved"
    /\ lab.data1.pc = "none"
    /\ lab' = [lab EXCEPT !.data1 = CARLA_Data(disk, lab.config)]
    /\ UNCHANGED <<ix, img, dset, dset0, calls, disk, ctor, geo>>

LabNext ==
    \/ LabBatch
    \/ LabSave
    \/ LabReloadData2
    \/ LabReloadData

SpecLabels == LabInit /\ [][LabNext]_vars

\* the file get_labels wrote
LabelsFile ==
    disk[SsdDir].files[LabelsName(lab.config.seq_len, lab.config.pred_len)]

\* C5: what get_labels persisted can be reloaded as training data by the
\* dataset classes: it is under the file name the loader looks for, it has
\* the field keys the loader reads, and a dataset constructed afterwards
\* holds every synthetic window that was written.
C5_LabelsReloadAsTrainingData ==
    lab.pc = "saved" =>
        /\ PathExists(disk, SsdDir, PreloadFile(lab))
        /\ FieldNames \subseteq DOMAIN LabelsFile.dict
        /\ lab.data2.pc # "none" =>
              /\ lab.data2.pc = "done"
              /\ \A k \in 1..Len(lab.preload["front"]) :
                    \E n \in 1..Len(lab.data2.self["front"]) :
                        lab.data2.self["front"][n] = lab.preload["front"][k]
        /\ lab.data1.pc # "none" =>
              /\ lab.data1.pc = "done"
              /\ \A k \in 1..Len(lab.preload["front"]) :
                    \E n \in 1..Len(lab.data1.front) :
                        lab.data1.front[n] = lab.preload["front"][k]

\* C6: for every window get_labels has processed, the waypoint field is
\* (0.0, 0.0) followed by the model's waypoints in their order (pred_len + 1
\* long when the model returned pred_len of them), the x, y and theta fields
\* are pred_len + 1 zeros, after every batch all seven lists have one entry
\* per window processed, and the lists are what is saved.
C6_EmittedLabels ==
    lab.pc \in {"loop", "saved"} =>
        /\ Len(lab.preds) = lab.seen
        /\ \A f \in {"front", "x", "y", "theta", "x_command", "y_command",
                     "waypoints"} :
              Len(lab.preload[f]) = lab.seen
        /\ \A k \in 1..lab.seen :
              /\ Len(lab.preload["waypoints"][k]) = Len(lab.preds[k]) + 1
              /\ lab.preload["waypoints"][k][1] = <<F(0), F(0)>>
              /\ \A j \in 1..Len(lab.preds[k]) :
                    lab.preload["waypoints"][k][j + 1] = lab.preds[k][j]
              /\ Len(lab.preds[k]) = lab.config.pred_len =>
                    Len(lab.preload["waypoints"][k]) = lab.config.pred_len + 1
              /\ \A f \in {"x", "y", "theta"} :
                    /\ Len(lab.preload[f][k]) = lab.config.pred_len + 1
                    /\ \A j \in 1..(lab.config.pred_len + 1) :
                          lab.preload[f][k][j] = 0
        /\ lab.pc = "saved" => LabelsFile.dict = lab.preload

\* two batches are through and saved, and a window for which the model gave
\* [(1.0, 0.0), (2.0, 0.0)] has [(0.0, 0.0), (1.0, 0.0), (2.0, 0.0)]
C6_Witness ==
    /\ lab.pc = "saved"
    /\ lab.batches = 2
    /\ lab.seen >= 3
    /\ lab.config.pred_len = 2
    /\ \E k \in 1..lab.seen :
          /\ lab.preds[k] = <<<<F(1), F(0)>>, <<F(2), F(0)>>>>
          /\ lab.preload["waypoints"][k] =
                <<<<F(0), F(0)>>, <<F(1), F(0)>>, <<F(2), F(0)>>>>

----------------------------------------------------------------------------
(* SpecRace: two processes construct CARLA_Data2 over the same list of     *)
(* roots with the same config while no cache file is there, each once;     *)
(* the route directories do not change and os.listdir gives them in the    *)
(* same order to both.  np.save is open(file, "wb") followed by the write  *)
(* of the pickled dict, two steps: between them the file is there and      *)
(* holds no object, and os.path.exists and np.load of the other process    *)
(* see it so.                                                              *)

\* a file that was opened for writing and has nothing in it yet
TornFile(d, sub_root) ==
    [dict |-> <<>>, by |-> "CARLA_Data2", routes |-> d[sub_root].routes]

RaceInit ==
    /\ \E va \in {0, 1}, vb \in {0, 1} :
          disk = [r \in Roots |->
                    IF r = "rootA"
                    THEN [routes |-> <<RouteOnDisk(r, "route0", va),
                                       RouteOnDisk(r, "route1", 0)>>,
                          files |-> NoFiles]
                    ELSE [routes |-> <<RouteOnDisk(r, "route0", vb)>>,
                          files |-> NoFiles]]
    /\ \E p \in 0..LifeMaxPredLen, root \in RootLists :
          ctor = [q \in Procs |->
                    [pc |-> "idle", config |-> Config(1, p, TRUE, TRUE),
                     root |-> root]]
    /\ IxOff /\ ImgOff /\ AccOff /\ LabOff /\ GeoOff

\* CARLA_Data2(root, config) is called
RaceBegin(p) ==
    /\ ctor[p].pc = "idle"
    /\ ctor' = [ctor EXCEPT ![p] = CtorStart(ctor[p].config, ctor[p].root)]
    /\ UNCHANGED <<ix, img, dset, dset0, calls, disk, lab, geo>>

\* np.save, first half: open(preload_file, "wb") creates or empties the file
RaceSaveOpen(p) ==
    /\ ctor[p].pc = "save"
    /\ disk' = [disk EXCEPT ![SubRoot(ctor[p])].files =
                  DictSet(@, PreloadFile(ctor[p]), TornFile(disk, SubRoot(ctor[p])))]
    /\ ctor' = [ctor EXCEPT ![p].pc = "write"]
    /\ UNCHANGED <<ix, img, dset, dset0, calls, lab, geo>>

\* np.save, second half: the pickled dict is in the file
RaceSaveWrite(p) ==
    /\ ctor[p].pc = "write"
    /\ disk' = CtorSave(disk, ctor[p])
    /\ ctor' = [ctor EXCEPT ![p].pc = "load"]
    /\ UNCHANGED <<ix, img, dset, dset0, calls, lab, geo>>

RaceNext ==
    \E p \in Procs :
        \/ RaceBegin(p)
        \/ LifeCheck(p)
        \/ LifeIndex(p)
        \/ RaceSaveOpen(p)
        \/ RaceSaveWrite(p)
        \/ LifeLoad(p)

SpecRace == RaceInit /\ [][RaceNext]_vars

\* the roots as they were before any construction: no cache file
DiskNoCache == [r \in Roots |-> [routes |-> disk[r].routes, files |-> NoFiles]]

\* a single construction with no other beside it
SingleBuild(p) == CARLA_Data2(DiskNoCache, ctor[p].root, ctor[p].config)

\* C14 as claimed: in every interleaving both constructions come to their
\* end with the dataset of a single build, and the cache files finally on
\* disk are those of a single build
C14_RaceSameAsSingleBuild ==
    /\ \A p \in Procs :
          /\ ctor[p].pc # "raised"
          /\ ctor[p].pc = "done" => ctor[p].self = SingleBuild(p).ctor.self
    /\ (\A p \in Procs : ctor[p].pc = "done") =>
          \A p \in Procs : \A r \in Roots :
              disk[r].files = SingleBuild(p).disk[r].files

\* C14, what holds: both may index and write; a construction that comes to
\* its end has the dataset of a single build, and a cache file that is not
\* being written is the file of a single build
C14_SameWhenNotTorn ==
    \A p \in Procs :
        /\ ctor[p].pc = "done" => ctor[p].self = SingleBuild(p).ctor.self
        /\ \A r \in Roots : \A name \in DOMAIN disk[r].files :
              \/ disk[r].files[name] = TornFile(disk, r)
              \/ /\ name \in DOMAIN SingleBuild(p).disk[r].files
                 /\ disk[r].files[name] = SingleBuild(p).disk[r].files[name]

\* C14, what holds: a construction raises only out of np.load of a file that
\* the other process has opened for writing and not yet written
C14_RaisesOnlyOnTornFile ==
    [][\A p \in Procs :
          (ctor[p].pc # "raised" /\ ctor'[p].pc = "raised") =>
              /\ ctor[p].pc = "load"
              /\ PathExists(disk, SubRoot(ctor[p]), PreloadFile(ctor[p]))
              /\ disk[SubRoot(ctor[p])].files[PreloadFile(ctor[p])] =
                    TornFile(disk, SubRoot(ctor[p]))
              /\ \E q \in Procs \ {p} : ctor[q].pc = "write"]_vars

\* both processes indexed the same root and both wrote its cache file
C14_BothBuilt ==
    /\ \A p \in Procs :
          /\ ctor[p].pc = "done"
          /\ ctor[p].loaded[1].built
          /\ ctor[p].self = SingleBuild(p).ctor.self
          /\ Len(ctor[p].self["front"]) >= 2

====
